---- MODULE Spec2Model ----
(***************************************************************************)
(* Model of the FSM-based rescue agent of lab3_fsm_rescue_agent.py:        *)
(* the RescueAgent object (current state, goal queue, active goal,         *)
(* transition history, mission counter, log), its public methods, and the  *)
(* driver loop of run_simulation.                                          *)
(*                                                                         *)
(* Methods are operators from an agent record to the agent record after    *)
(* the call, so that a method calling another (complete_mission calls      *)
(* transition_to twice) is one step, as it is in the single-threaded code. *)
(* Timestamps and sensor readings are only ever formatted into log text    *)
(* and are left out.                                                       *)
(***************************************************************************)
EXTENDS Integers, Sequences, FiniteSets, TLC

\* ------------------------------------------------------------------ bounds
\* Calls made on the agent by a client of all its public methods (Spec).
MaxCalls == 5
\* Calls made by a client that delivers alerts and steps the dispatcher
\* (SpecDriver).
MaxDriverCalls == 8
\* Calls made by a client that enqueues and selects goals (SpecQueue).
MaxQueueCalls == 8
\* Calls made before the driver loop is entered (SpecLoop).
MaxPrefixCalls == 6
\* Alerts delivered by the client that tries every event (SpecMaps).
MaxMapCalls == 2
\* Alerts delivered by the client that never stops dispatching (SpecFair).
MaxFairAlerts == 3
\* Calls made by the client that asks for response actions (SpecActions).
MaxActionCalls == 4
\* RescueGoal objects constructed by any of these clients.
MaxGoals == 4

\* ------------------------------------------------------------ enumerations
\* class DisasterType: member name -> value
DisasterType ==
    [NONE |-> "None", FLOOD |-> "Flood", EARTHQUAKE |-> "Earthquake",
     FIRE |-> "Fire", LANDSLIDE |-> "Landslide"]

\* class SeverityLevel: member name -> value
SeverityLevel ==
    [NONE |-> 0, LOW |-> 1, MODERATE |-> 2, HIGH |-> 3, CRITICAL |-> 4]

STATE_IDLE == "IDLE"
STATE_ALERT == "ALERT_RECEIVED"
STATE_ASSESSING == "ASSESSING"
STATE_RESPONDING == "RESPONDING"
STATE_COMPLETING == "COMPLETING"

States ==
    {STATE_IDLE, STATE_ALERT, STATE_ASSESSING, STATE_RESPONDING, STATE_COMPLETING}

\* run_simulation: num_cycles
num_cycles == 8

\* The static transition table: state -> list of allowed targets.
VALID_TRANSITIONS ==
    [s \in States |->
        CASE s = STATE_IDLE -> <<STATE_ALERT>>
          [] s = STATE_ALERT -> <<STATE_ASSESSING, STATE_IDLE>>
          [] s = STATE_ASSESSING -> <<STATE_RESPONDING, STATE_IDLE>>
          [] s = STATE_RESPONDING -> <<STATE_COMPLETING>>
          [] s = STATE_COMPLETING -> <<STATE_IDLE>>]

\* VALID_TRANSITIONS.get(state, []) as the set of its elements
AllowedTargets(state) ==
    IF state \in DOMAIN VALID_TRANSITIONS
    THEN {VALID_TRANSITIONS[state][i] : i \in 1..Len(VALID_TRANSITIONS[state])}
    ELSE {}

\* Python's None (an absent event, no active goal)
None == [none |-> TRUE]

\* ------------------------------------------------------------------ inputs
\* Events a client may deliver: the dict built by generate_event, reduced to
\* the keys the agent's state depends on.
MkEvent(zone, disaster, severity) ==
    [zone |-> zone, disaster_type |-> disaster, severity |-> severity]

Events ==
    {MkEvent("Zone-A", "FIRE", "LOW"),
     MkEvent("Zone-B", "FLOOD", "MODERATE"),
     MkEvent("Zone-A", "FIRE", "CRITICAL")}

\* Targets a client may pass to transition_to: every state and a non-state.
Targets == States \cup {"UNKNOWN"}

VARIABLES
    rescue,      \* the RescueAgent object
    created,     \* number of RescueGoal objects constructed so far
    last_call,   \* the call the client made last: [op, arg, ret, out]
    calls,       \* number of calls made by the client
    pc,          \* run_simulation: where it is
    cycle,       \* run_simulation: the loop variable of its for loop
    scan_count,  \* run_simulation: sensor.scan_count
    cycle_start, \* the driver loop: the event delivered last and the agent before it
    summary      \* run_simulation: the numbers its summary prints

simvars == <<pc, cycle, scan_count, cycle_start, summary>>
vars == <<rescue, created, last_call, calls, pc, cycle, scan_count, cycle_start, summary>>

\* --------------------------------------------------------------- RescueGoal
\* RescueGoal.__init__; id is the object's identity (its construction ordinal)
RescueGoal(id, goal_type, priority, target_zone, disaster_event) ==
    [id |-> id, goal_type |-> goal_type, priority |-> priority,
     target_zone |-> target_zone, disaster_event |-> disaster_event,
     status |-> "PENDING"]

\* -------------------------------------------------------------- RescueAgent
\* RescueAgent.__init__
NewRescueAgent ==
    [current_state |-> STATE_IDLE,
     goals |-> <<>>,
     active_goal |-> None,
     state_history |-> << <<STATE_IDLE, <<"Agent initialized">> >> >>,
     completed_missions |-> 0,
     execution_log |-> <<>>,
     dropped |-> <<>>]

\* The assignment self.active_goal = goal. The RescueGoal object the agent
\* referenced until then lives on for whoever else holds it; dropped keeps
\* the identity and the status of each such object, which nothing changes
\* any more.
set_active_goal(self, goal) ==
    [self EXCEPT !.active_goal = goal,
                 !.dropped = IF self.active_goal = None
                             THEN @
                             ELSE Append(@, [id |-> self.active_goal.id,
                                             status |-> self.active_goal.status])]

\* RescueAgent.log, keeping the entries that report a rejected transition
\* (the other entries are narration no claim reads).
log_invalid(self, new_state) ==
    [self EXCEPT !.execution_log =
        Append(@, <<"INVALID TRANSITION", self.current_state, new_state>>)]

\* transition_to without the table lookup: every target is committed.
transition_to_unchecked(self, new_state, reason) ==
    [self |-> [self EXCEPT !.current_state = new_state,
                           !.state_history = Append(@, <<new_state, reason>>)],
     ret |-> TRUE]

\* RescueAgent.transition_to: [self |-> the agent after the call, ret |-> result]
transition_to(self, new_state, reason) ==
    IF new_state \notin AllowedTargets(self.current_state)
    THEN [self |-> log_invalid(self, new_state), ret |-> FALSE]
    ELSE [self |-> [self EXCEPT !.current_state = new_state,
                                !.state_history = Append(@, <<new_state, reason>>)],
          ret |-> TRUE]

\* _determine_goal with two entries of goal_map swapped
determine_goal_swapped(disaster_type) ==
    CASE disaster_type = "FLOOD" -> "SEARCH_AND_RESCUE"
      [] disaster_type = "EARTHQUAKE" -> "EVACUATE_AND_RESCUE"
      [] disaster_type = "FIRE" -> "FIRE_SUPPRESSION_AND_RESCUE"
      [] disaster_type = "LANDSLIDE" -> "DEBRIS_CLEARANCE_AND_RESCUE"
      [] OTHER -> "GENERAL_RESCUE"

\* RescueAgent._determine_goal
determine_goal(disaster_type) ==
    CASE disaster_type = "FLOOD" -> "EVACUATE_AND_RESCUE"
      [] disaster_type = "EARTHQUAKE" -> "SEARCH_AND_RESCUE"
      [] disaster_type = "FIRE" -> "FIRE_SUPPRESSION_AND_RESCUE"
      [] disaster_type = "LANDSLIDE" -> "DEBRIS_CLEARANCE_AND_RESCUE"
      [] OTHER -> "GENERAL_RESCUE"

\* receive_alert that raises the alert only when the queue was empty
receive_alert_if_empty(self, event, id) ==
    IF event = None
    THEN self
    ELSE LET goal == RescueGoal(id, determine_goal(event.disaster_type),
                         SeverityLevel[event.severity], event.zone, event)
             queued == [self EXCEPT !.goals = Append(@, goal)]
         IN IF self.current_state = STATE_IDLE /\ self.goals = <<>>
            THEN transition_to(queued, STATE_ALERT,
                     <<"Disaster alert: ", DisasterType[event.disaster_type],
                       " in ", event.zone>>).self
            ELSE queued

\* receive_alert that lets a goal of higher priority take over the mission
receive_alert_preempt(self, event, id) ==
    IF event = None
    THEN self
    ELSE LET goal == RescueGoal(id, determine_goal(event.disaster_type),
                         SeverityLevel[event.severity], event.zone, event)
             queued == [self EXCEPT !.goals = Append(@, goal)]
         IN IF self.current_state = STATE_IDLE
            THEN transition_to(queued, STATE_ALERT,
                     <<"Disaster alert: ", DisasterType[event.disaster_type],
                       " in ", event.zone>>).self
            ELSE IF self.active_goal # None /\ goal.priority > self.active_goal.priority
                 THEN [self EXCEPT !.goals = Append(@, [self.active_goal EXCEPT !.status = "PENDING"]),
                                   !.active_goal = [goal EXCEPT !.status = "ACTIVE"]]
                 ELSE queued

\* receive_alert that raises the alert before it looks at the event
receive_alert_alert_first(self, event, id) ==
    LET alerted == IF self.current_state = STATE_IDLE
                   THEN transition_to(self, STATE_ALERT, <<"Disaster alert">>).self
                   ELSE self
    IN IF event = None
       THEN alerted
       ELSE [alerted EXCEPT !.goals =
                Append(@, RescueGoal(id, determine_goal(event.disaster_type),
                              SeverityLevel[event.severity], event.zone, event))]

\* RescueAgent.receive_alert; id is the identity of the goal it constructs
receive_alert(self, event, id) ==
    IF event = None
    THEN self
    ELSE LET severity == event.severity
             disaster == event.disaster_type
             zone == event.zone
             goal_type == determine_goal(disaster)
             priority == SeverityLevel[severity]
             goal == RescueGoal(id, goal_type, priority, zone, event)
             queued == [self EXCEPT !.goals = Append(@, goal)]
         IN IF queued.current_state = STATE_IDLE
            THEN transition_to(queued, STATE_ALERT,
                     <<"Disaster alert: ", DisasterType[disaster], " in ", zone>>).self
            ELSE queued

\* an insertion that puts a goal before the queued goals of its own priority
insert_desc_unstable(sorted, g) ==
    LET k == Cardinality({i \in DOMAIN sorted : sorted[i].priority > g.priority})
    IN SubSeq(sorted, 1, k) \o <<g>> \o SubSeq(sorted, k + 1, Len(sorted))

\* list.sort(key=lambda g: g.priority, reverse=True): a stable sort, so goals
\* of equal priority keep their relative order. insert_desc puts g into a
\* list sorted by descending priority, after every goal whose priority is
\* not lower.
insert_desc(sorted, g) ==
    LET k == Cardinality({i \in DOMAIN sorted : sorted[i].priority >= g.priority})
    IN SubSeq(sorted, 1, k) \o <<g>> \o SubSeq(sorted, k + 1, Len(sorted))

\* The goals are inserted one by one, in list order, into the sorted list of
\* those before them (front is bound to that list once, as a value).
RECURSIVE sort_by_priority_desc(_)
sort_by_priority_desc(goals) ==
    IF goals = <<>>
    THEN <<>>
    ELSE CHOOSE sorted \in
            {insert_desc(front, goals[Len(goals)]) :
                front \in {sort_by_priority_desc(SubSeq(goals, 1, Len(goals) - 1))}} :
            TRUE

\* assess_situation without the fallback to IDLE on an empty queue
assess_situation_no_fallback(self) ==
    IF self.goals = <<>>
    THEN self
    ELSE LET sorted == sort_by_priority_desc(self.goals)
             selected == [Head(sorted) EXCEPT !.status = "ACTIVE"]
             picked == set_active_goal([self EXCEPT !.goals = Tail(sorted)], selected)
         IN transition_to(picked, STATE_ASSESSING,
                <<"Assessing ", selected.goal_type>>).self

\* assess_situation that reads the first goal without removing it
assess_situation_peek(self) ==
    IF self.goals = <<>>
    THEN transition_to(self, STATE_IDLE, <<"No pending goals">>).self
    ELSE LET sorted == sort_by_priority_desc(self.goals)
             selected == [Head(sorted) EXCEPT !.status = "ACTIVE"]
             picked == set_active_goal([self EXCEPT !.goals = sorted], selected)
         IN transition_to(picked, STATE_ASSESSING,
                <<"Assessing ", selected.goal_type>>).self

\* assess_situation that empties the queue when it selects a goal
assess_situation_drop_rest(self) ==
    IF self.goals = <<>>
    THEN transition_to(self, STATE_IDLE, <<"No pending goals">>).self
    ELSE LET sorted == sort_by_priority_desc(self.goals)
             selected == [Head(sorted) EXCEPT !.status = "ACTIVE"]
             picked == set_active_goal([self EXCEPT !.goals = <<>>], selected)
         IN transition_to(picked, STATE_ASSESSING,
                <<"Assessing ", selected.goal_type>>).self

\* RescueAgent.assess_situation
assess_situation(self) ==
    IF self.goals = <<>>
    THEN transition_to(self, STATE_IDLE, <<"No pending goals">>).self
    ELSE LET sorted == sort_by_priority_desc(self.goals)
             selected == [Head(sorted) EXCEPT !.status = "ACTIVE"]
             picked == set_active_goal([self EXCEPT !.goals = Tail(sorted)], selected)
         IN transition_to(picked, STATE_ASSESSING,
                <<"Assessing ", selected.goal_type>>).self

\* execute_response that never leaves ASSESSING
execute_response_stuck(self) == self

\* execute_response without the check for an active goal
execute_response_unguarded(self) ==
    transition_to(self, STATE_RESPONDING, <<"Executing ">>).self

\* RescueAgent.execute_response (the actions are only logged)
execute_response(self) ==
    IF self.active_goal = None
    THEN self
    ELSE transition_to(self, STATE_RESPONDING,
             <<"Executing ", self.active_goal.goal_type>>).self

\* _get_response_actions: the base_actions dict, built anew by every call
base_actions ==
    [FLOOD |-> <<"Deploying water rescue boats",
                 "Activating flood barriers",
                 "Evacuating residents to higher ground">>,
     EARTHQUAKE |-> <<"Deploying seismic rescue units",
                      "Scanning collapsed structures",
                      "Setting up triage stations">>,
     FIRE |-> <<"Dispatching fire suppression units",
                "Establishing firebreaks",
                "Evacuating affected buildings">>,
     LANDSLIDE |-> <<"Deploying heavy debris removal equipment",
                     "Scanning for buried survivors",
                     "Securing unstable terrain">>]

\* _get_response_actions that escalates only above HIGH
get_response_actions_above_high(disaster, severity) ==
    LET actions == IF disaster \in DOMAIN base_actions
                   THEN base_actions[disaster]
                   ELSE <<"Initiating general rescue protocol">>
        escalated == IF SeverityLevel[severity] > SeverityLevel["HIGH"]
                     THEN actions \o <<"Requesting additional backup units",
                                       "Alerting medical emergency teams">>
                     ELSE actions
    IN IF severity = "CRITICAL"
       THEN Append(escalated, "Declaring zone-wide emergency evacuation")
       ELSE escalated

\* RescueAgent._get_response_actions. The list it appends to comes out of the
\* dict literal of the same call, so the result depends on the arguments only.
get_response_actions(disaster, severity) ==
    LET actions == IF disaster \in DOMAIN base_actions
                   THEN base_actions[disaster]
                   ELSE <<"Initiating general rescue protocol">>
        escalated == IF SeverityLevel[severity] >= SeverityLevel["HIGH"]
                     THEN actions \o <<"Requesting additional backup units",
                                       "Alerting medical emergency teams">>
                     ELSE actions
    IN IF severity = "CRITICAL"
       THEN Append(escalated, "Declaring zone-wide emergency evacuation")
       ELSE escalated

\* The ACTION lines execute_response logs, in order (lines 170-172): none
\* without an active goal, otherwise those of the active goal's event,
\* whether or not the transition of line 165 was accepted.
logged_actions(self) ==
    IF self.active_goal = None
    THEN <<>>
    ELSE get_response_actions(self.active_goal.disaster_event.disaster_type,
                              self.active_goal.disaster_event.severity)

\* The ACTION lines one run_fsm_cycle logs: those of execute_response, which
\* it calls in ASSESSING only.
cycle_actions(self) ==
    IF self.current_state = STATE_ASSESSING THEN logged_actions(self) ELSE <<>>

\* complete_mission that sets the state itself instead of calling transition_to
complete_mission_direct(self) ==
    IF self.active_goal # None
    THEN set_active_goal([self EXCEPT !.active_goal.status = "COMPLETED",
                                      !.completed_missions = @ + 1,
                                      !.current_state = STATE_IDLE], None)
    ELSE self

\* complete_mission that does not count the mission
complete_mission_uncounted(self) ==
    IF self.active_goal # None
    THEN LET marked == [self EXCEPT !.active_goal.status = "COMPLETED"]
             wrapped == transition_to(marked, STATE_COMPLETING,
                            <<"Mission wrap-up">>).self
             released == set_active_goal(wrapped, None)
         IN transition_to(released, STATE_IDLE,
                <<"Ready for next assignment">>).self
    ELSE self

\* complete_mission that stops after the transition to COMPLETING
complete_mission_no_idle(self) ==
    IF self.active_goal # None
    THEN LET counted == [self EXCEPT !.active_goal.status = "COMPLETED",
                                     !.completed_missions = @ + 1]
             wrapped == transition_to(counted, STATE_COMPLETING,
                            <<"Mission wrap-up">>).self
         IN set_active_goal(wrapped, None)
    ELSE self

\* complete_mission that puts the finished goal back into the queue
complete_mission_requeue(self) ==
    IF self.active_goal # None
    THEN LET counted == [self EXCEPT !.active_goal.status = "COMPLETED",
                                     !.completed_missions = @ + 1]
             wrapped == transition_to(counted, STATE_COMPLETING,
                            <<"Mission wrap-up">>).self
             again == [wrapped EXCEPT !.active_goal = None,
                           !.goals = Append(@, [wrapped.active_goal EXCEPT !.status = "PENDING"])]
         IN transition_to(again, STATE_IDLE,
                <<"Ready for next assignment">>).self
    ELSE self

\* complete_mission that keeps its reference to the finished goal
complete_mission_keep_goal(self) ==
    IF self.active_goal # None
    THEN LET counted == [self EXCEPT !.active_goal.status = "COMPLETED",
                                     !.completed_missions = @ + 1]
             wrapped == transition_to(counted, STATE_COMPLETING,
                            <<"Mission wrap-up">>).self
         IN transition_to(wrapped, STATE_IDLE,
                <<"Ready for next assignment">>).self
    ELSE self

\* RescueAgent.complete_mission
complete_mission(self) ==
    IF self.active_goal # None
    THEN LET counted == [self EXCEPT !.active_goal.status = "COMPLETED",
                                     !.completed_missions = @ + 1]
             wrapped == transition_to(counted, STATE_COMPLETING,
                            <<"Mission wrap-up">>).self
             released == set_active_goal(wrapped, None)
         IN transition_to(released, STATE_IDLE,
                <<"Ready for next assignment">>).self
    ELSE self

\* run_fsm_cycle that also looks at the queue in IDLE
run_fsm_cycle_eager(self) ==
    CASE self.current_state = STATE_IDLE ->
             IF self.goals = <<>> THEN self ELSE assess_situation(self)
      [] self.current_state = STATE_ALERT -> assess_situation(self)
      [] self.current_state = STATE_ASSESSING -> execute_response(self)
      [] self.current_state = STATE_RESPONDING -> complete_mission(self)
      [] OTHER -> self

\* RescueAgent.run_fsm_cycle
run_fsm_cycle(self) ==
    CASE self.current_state = STATE_IDLE -> self
      [] self.current_state = STATE_ALERT -> assess_situation(self)
      [] self.current_state = STATE_ASSESSING -> execute_response(self)
      [] self.current_state = STATE_RESPONDING -> complete_mission(self)
      [] OTHER -> self

\* ------------------------------------------------------------------ clients
Init ==
    /\ rescue = NewRescueAgent
    /\ created = 0
    /\ last_call = [op |-> "__init__", arg |-> None, ret |-> None, out |-> <<>>]
    /\ calls = 0
    /\ pc = "scan"
    /\ cycle = 1
    /\ scan_count = 0
    /\ cycle_start = None
    /\ summary = None

\* The client's side of a call: what it called, with what, and what came
\* back; limit bounds the number of calls the client makes.
CalledOut(op, arg, ret, out, limit) ==
    /\ calls < limit
    /\ calls' = calls + 1
    /\ last_call' = [op |-> op, arg |-> arg, ret |-> ret, out |-> out]
    /\ UNCHANGED simvars

\* a call that logs no ACTION line
Called(op, arg, ret, limit) == CalledOut(op, arg, ret, <<>>, limit)

\* rescue.receive_alert(event), event present or None
ReceiveAlert(limit) ==
    \E event \in Events \cup {None} :
        /\ event # None => created < MaxGoals
        /\ rescue' = receive_alert(rescue, event, created + 1)
        /\ created' = IF event = None THEN created ELSE created + 1
        /\ Called("receive_alert", event, None, limit)

\* rescue.run_fsm_cycle()
RunFsmCycle(limit) ==
    /\ rescue' = run_fsm_cycle(rescue)
    /\ UNCHANGED created
    /\ CalledOut("run_fsm_cycle", None, None, cycle_actions(rescue), limit)

\* rescue.assess_situation()
AssessSituation(limit) ==
    /\ rescue' = assess_situation(rescue)
    /\ UNCHANGED created
    /\ Called("assess_situation", None, None, limit)

\* rescue.execute_response()
ExecuteResponse(limit) ==
    /\ rescue' = execute_response(rescue)
    /\ UNCHANGED created
    /\ CalledOut("execute_response", None, None, logged_actions(rescue), limit)

\* rescue.complete_mission()
CompleteMission(limit) ==
    /\ rescue' = complete_mission(rescue)
    /\ UNCHANGED created
    /\ Called("complete_mission", None, None, limit)

\* rescue.transition_to(target)
TransitionTo(limit) ==
    \E target \in Targets :
        LET r == transition_to(rescue, target, <<>>)
        IN /\ rescue' = r.self
           /\ UNCHANGED created
           /\ Called("transition_to", [target |-> target], [value |-> r.ret], limit)

\* A client of all the public methods, in any order.
ApiReceiveAlert == ReceiveAlert(MaxCalls)
ApiRunFsmCycle == RunFsmCycle(MaxCalls)
ApiAssessSituation == AssessSituation(MaxCalls)
ApiExecuteResponse == ExecuteResponse(MaxCalls)
ApiCompleteMission == CompleteMission(MaxCalls)
ApiTransitionTo == TransitionTo(MaxCalls)

Next ==
    \/ ApiReceiveAlert
    \/ ApiRunFsmCycle
    \/ ApiAssessSituation
    \/ ApiExecuteResponse
    \/ ApiCompleteMission
    \/ ApiTransitionTo

Spec == Init /\ [][Next]_vars

\* A client of the five methods that act on goals, without transition_to.
NextPublic ==
    \/ ApiReceiveAlert
    \/ ApiAssessSituation
    \/ ApiExecuteResponse
    \/ ApiCompleteMission
    \/ ApiRunFsmCycle

SpecPublic == Init /\ [][NextPublic]_vars

\* A client that only delivers alerts and steps the dispatcher.
DriverReceiveAlert == ReceiveAlert(MaxDriverCalls)
DriverRunFsmCycle == RunFsmCycle(MaxDriverCalls)

NextDriver ==
    \/ DriverReceiveAlert
    \/ DriverRunFsmCycle

SpecDriver == Init /\ [][NextDriver]_vars

\* A client of the goal queue: enqueues (receive_alert) and selections
\* (assess_situation), in any order.
QueueReceiveAlert == ReceiveAlert(MaxQueueCalls)
QueueAssessSituation == AssessSituation(MaxQueueCalls)

NextQueue ==
    \/ QueueReceiveAlert
    \/ QueueAssessSituation

SpecQueue == Init /\ [][NextQueue]_vars

\* ------------------------------------------------------------ run_simulation
\* What sensor.scan() may return: nothing, or an event of generate_event.
ScanResults == Events \cup {None}

\* event = sensor.scan(); rescue.receive_alert(event)
SimScan ==
    /\ pc = "scan"
    /\ \E event \in ScanResults :
        /\ scan_count' = scan_count + 1
        /\ cycle_start' = [agent |-> rescue, event |-> event]
        /\ rescue' = receive_alert(rescue, event, created + 1)
        /\ created' = IF event = None THEN created ELSE created + 1
        /\ last_call' = [op |-> "receive_alert", arg |-> event, ret |-> None, out |-> <<>>]
    /\ pc' = "loop"
    /\ UNCHANGED <<calls, cycle, summary>>

\* while rescue.current_state != STATE_IDLE: rescue.run_fsm_cycle()
SimStep ==
    /\ pc = "loop"
    /\ rescue.current_state # STATE_IDLE
    /\ rescue' = run_fsm_cycle(rescue)
    /\ last_call' = [op |-> "run_fsm_cycle", arg |-> None, ret |-> None,
                     out |-> cycle_actions(rescue)]
    /\ UNCHANGED <<created, calls, pc, cycle, scan_count, cycle_start, summary>>

\* the while loop ends; the for loop goes on to the next cycle or ends
SimCycleEnd ==
    /\ pc = "loop"
    /\ rescue.current_state = STATE_IDLE
    /\ cycle' = cycle + 1
    /\ pc' = IF cycle + 1 > num_cycles THEN "summary" ELSE "scan"
    /\ UNCHANGED <<rescue, created, last_call, calls, scan_count, cycle_start, summary>>

\* the summary printed after the loop
SimSummary ==
    /\ pc = "summary"
    /\ summary' = [total_scans |-> scan_count,
                   missions_completed |-> rescue.completed_missions,
                   transition_count |-> Len(rescue.state_history)]
    /\ pc' = "done"
    /\ UNCHANGED <<rescue, created, last_call, calls, cycle, scan_count, cycle_start>>

NextSim ==
    \/ SimScan
    \/ SimStep
    \/ SimCycleEnd
    \/ SimSummary

SpecSim == Init /\ [][NextSim]_vars

\* ------------------------------------------------------------ the driver loop
\* The loop of run_simulation lines 270-273, entered in any state a client of
\* receive_alert and run_fsm_cycle can leave the agent in: receive_alert
\* (SimScan), then run_fsm_cycle while the state is not IDLE (SimStep).
LoopPrefixAlert == pc = "scan" /\ ReceiveAlert(MaxPrefixCalls)
LoopPrefixCycle == pc = "scan" /\ RunFsmCycle(MaxPrefixCalls)

\* the while loop ends
LoopExit ==
    /\ pc = "loop"
    /\ rescue.current_state = STATE_IDLE
    /\ pc' = "done"
    /\ UNCHANGED <<rescue, created, last_call, calls, cycle, scan_count, cycle_start, summary>>

NextLoop ==
    \/ LoopPrefixAlert
    \/ LoopPrefixCycle
    \/ SimScan
    \/ SimStep
    \/ LoopExit

\* The loop body runs as long as the loop condition holds.
SpecLoop == Init /\ [][NextLoop]_vars /\ WF_vars(SimStep)

\* ------------------------------------------- every event of the enumerations
\* Every member of DisasterType with every member of SeverityLevel.
AllEvents ==
    {MkEvent("Zone-C", d, v) : d \in DOMAIN DisasterType, v \in DOMAIN SeverityLevel}

\* rescue.receive_alert(event) with any event of the two enumerations
MapReceiveAlert ==
    \E event \in AllEvents :
        /\ rescue' = receive_alert(rescue, event, created + 1)
        /\ created' = created + 1
        /\ Called("receive_alert", event, None, MaxMapCalls)

NextMaps == MapReceiveAlert

SpecMaps == Init /\ [][NextMaps]_vars

\* ----------------------------------------------------- the response actions
\* Keys _get_response_actions may be asked for: every member of DisasterType
\* and a value that is none of them.
ActionKeys == DOMAIN DisasterType \cup {"TSUNAMI"}

\* rescue._get_response_actions(disaster, severity)
ActGetResponseActions ==
    \E disaster \in ActionKeys, severity \in DOMAIN SeverityLevel :
        /\ UNCHANGED <<rescue, created>>
        /\ Called("_get_response_actions",
                  [disaster |-> disaster, severity |-> severity],
                  [value |-> get_response_actions(disaster, severity)],
                  MaxActionCalls)

ActReceiveAlert == ReceiveAlert(MaxActionCalls)

ActRunFsmCycle == RunFsmCycle(MaxActionCalls)

NextActions ==
    \/ ActReceiveAlert
    \/ ActRunFsmCycle
    \/ ActGetResponseActions

SpecActions == Init /\ [][NextActions]_vars

\* --------------------------------------- a client that keeps dispatching
\* rescue.receive_alert(event), in any state, finitely often
FairReceiveAlert ==
    \E event \in Events :
        /\ created < MaxFairAlerts
        /\ rescue' = receive_alert(rescue, event, created + 1)
        /\ created' = created + 1
        /\ last_call' = [op |-> "receive_alert", arg |-> event, ret |-> None, out |-> <<>>]
        /\ UNCHANGED <<calls, pc, cycle, scan_count, cycle_start, summary>>

\* rescue.run_fsm_cycle(), in any state, as often as the client likes
FairStep ==
    /\ rescue' = run_fsm_cycle(rescue)
    /\ last_call' = [op |-> "run_fsm_cycle", arg |-> None, ret |-> None,
                     out |-> cycle_actions(rescue)]
    /\ UNCHANGED <<created, calls, pc, cycle, scan_count, cycle_start, summary>>

NextFair ==
    \/ FairReceiveAlert
    \/ FairStep

\* The dispatcher is invoked again and again; alerts need not arrive.
SpecFair == Init /\ [][NextFair]_vars /\ WF_vars(FairStep)

\* ------------------------------------------------------------------- claims
\* the step is the client's call of op (Spec, SpecDriver, SpecQueue)
IsCall(op) == calls' = calls + 1 /\ last_call'.op = op

\* the set of elements of a sequence
Range(seq) == {seq[i] : i \in DOMAIN seq}

\* C1: transition_to(T) invoked in a state S whose allowed-target list does
\* not hold T returns False and leaves the current state and the transition
\* history as they were.
C1_InvalidTransitionRejected ==
    [][(IsCall("transition_to")
          /\ last_call'.arg.target \notin Range(VALID_TRANSITIONS[rescue.current_state]))
        => /\ last_call'.ret.value = FALSE
           /\ rescue'.current_state = rescue.current_state
           /\ rescue'.state_history = rescue.state_history]_vars

\* C1 witness: a rejected transition_to called while in COMPLETING
C1_Witness ==
    /\ last_call.op = "transition_to"
    /\ last_call.ret.value = FALSE
    /\ rescue.current_state = STATE_COMPLETING
    /\ last_call.arg.target = STATE_RESPONDING

\* C2: in every reachable state the last history entry records the current
\* state, and every two consecutive history entries are an edge of the
\* transition table.
C2_HistoryFollowsTable ==
    LET h == rescue.state_history
    IN /\ h[Len(h)][1] = rescue.current_state
       /\ \A i \in 1..(Len(h) - 1) : h[i + 1][1] \in Range(VALID_TRANSITIONS[h[i][1]])

\* C2 witness: a mission completed by complete_mission, back in IDLE
C2_Witness ==
    /\ last_call.op = "complete_mission"
    /\ rescue.completed_missions = 1
    /\ rescue.current_state = STATE_IDLE
    /\ Len(rescue.state_history) = 6

\* the position in queue q of the goal of maximum priority that was
\* constructed (and so enqueued) first
Earliest_max(q) ==
    CHOOSE i \in DOMAIN q :
        \A j \in DOMAIN q :
            \/ q[i].priority > q[j].priority
            \/ q[i].priority = q[j].priority /\ q[i].id <= q[j].id

\* C3: every selection (assess_situation on a non-empty queue) makes the
\* earliest-enqueued goal of maximum priority the active goal and removes
\* exactly that goal from the queue.
C3_PriorityMaxFifo ==
    [][(IsCall("assess_situation") /\ rescue.goals # <<>>)
        => LET q == rescue.goals
               best == q[Earliest_max(q)]
           IN /\ rescue'.active_goal = [best EXCEPT !.status = "ACTIVE"]
              /\ Len(rescue'.goals) = Len(q) - 1
              /\ Range(rescue'.goals) = Range(q) \ {best}]_vars

\* C3 witness: priorities [2,4,4,1] enqueued in that order; the second 4 has
\* just been selected after the first, 2 and 1 are still queued
C3_Witness ==
    /\ last_call.op = "assess_situation"
    /\ created = 4
    /\ rescue.active_goal # None
    /\ rescue.active_goal.id = 3
    /\ rescue.active_goal.priority = 4
    /\ Len(rescue.goals) = 2
    /\ {<<g.id, g.priority>> : g \in Range(rescue.goals)} = {<<1, 2>>, <<4, 1>>}

\* C4: a full cycle of the simulation loop (an event delivered in IDLE, then
\* run_fsm_cycle until IDLE) adds exactly 1 to completed_missions and exactly
\* 5 history entries, one per transition of the cycle.
C4_FullCycle ==
    (/\ cycle_start # None
     /\ cycle_start.event # None
     /\ rescue.current_state = STATE_IDLE)
    => LET before == cycle_start.agent
           h == rescue.state_history
           n == Len(before.state_history)
       IN /\ before.current_state = STATE_IDLE
          /\ rescue.completed_missions = before.completed_missions + 1
          /\ Len(h) = n + 5
          /\ SubSeq(h, 1, n) = before.state_history
          /\ [i \in 1..5 |-> h[n + i][1]] =
                <<STATE_ALERT, STATE_ASSESSING, STATE_RESPONDING,
                  STATE_COMPLETING, STATE_IDLE>>

\* C4 witness: the third full cycle has just ended
C4_Witness ==
    /\ pc = "loop"
    /\ cycle_start.event # None
    /\ rescue.current_state = STATE_IDLE
    /\ rescue.completed_missions = 3

\* C5: receive_alert with a present event, called in IDLE, ends in
\* ALERT_RECEIVED with the queue one longer.
C5_AlertWhileIdle ==
    [][(IsCall("receive_alert") /\ last_call'.arg # None
          /\ rescue.current_state = STATE_IDLE)
        => /\ rescue'.current_state = STATE_ALERT
           /\ Len(rescue'.goals) = Len(rescue.goals) + 1]_vars

\* C5 witness: an alert taken in IDLE while a goal was already queued
C5_Witness ==
    /\ last_call.op = "receive_alert"
    /\ last_call.arg # None
    /\ rescue.current_state = STATE_ALERT
    /\ Len(rescue.goals) = 2
    /\ Len(rescue.state_history) = 4

\* C6: receive_alert with a present event, called in any state but IDLE,
\* appends one PENDING goal to the queue and leaves the current state, the
\* active goal, the history and the mission counter as they were.
C6_AlertMidMission ==
    [][(IsCall("receive_alert") /\ last_call'.arg # None
          /\ rescue.current_state # STATE_IDLE)
        => /\ Len(rescue'.goals) = Len(rescue.goals) + 1
           /\ SubSeq(rescue'.goals, 1, Len(rescue.goals)) = rescue.goals
           /\ rescue'.goals[Len(rescue'.goals)].status = "PENDING"
           /\ rescue'.goals[Len(rescue'.goals)].id = created'
           /\ rescue'.current_state = rescue.current_state
           /\ rescue'.active_goal = rescue.active_goal
           /\ rescue'.state_history = rescue.state_history
           /\ rescue'.completed_missions = rescue.completed_missions]_vars

\* C6 witness: a CRITICAL alert taken in RESPONDING during a LOW mission
C6_Witness ==
    /\ last_call.op = "receive_alert"
    /\ last_call.arg # None
    /\ last_call.arg.severity = "CRITICAL"
    /\ rescue.current_state = STATE_RESPONDING
    /\ rescue.active_goal # None
    /\ rescue.active_goal.priority = 1
    /\ Len(rescue.goals) = 1

\* C7 as stated: assess_situation called with an empty queue, in whatever
\* state, ends in IDLE with no active goal.
C7_EmptyQueueAlwaysIdle ==
    [][(IsCall("assess_situation") /\ rescue.goals = <<>>)
        => /\ rescue'.current_state = STATE_IDLE
           /\ rescue'.active_goal = None]_vars

\* C7 amended: assess_situation called with an empty queue ends in IDLE
\* unless it is called in RESPONDING, where the transition is rejected and
\* the state stays RESPONDING; it leaves the queue empty and the active goal
\* as it was.
C7_EmptyQueueFallback ==
    [][(IsCall("assess_situation") /\ rescue.goals = <<>>)
        => /\ rescue'.current_state =
                 IF rescue.current_state = STATE_RESPONDING
                 THEN STATE_RESPONDING ELSE STATE_IDLE
           /\ rescue'.active_goal = rescue.active_goal
           /\ rescue'.goals = <<>>]_vars

\* C7 witness: the empty-queue assessment called in RESPONDING
C7_Witness ==
    /\ last_call.op = "assess_situation"
    /\ rescue.goals = <<>>
    /\ rescue.current_state = STATE_RESPONDING
    /\ rescue.active_goal # None
    /\ Len(rescue.execution_log) = 1

\* C8: once the driver loop is entered, in whatever state the agent was
\* left, stepping run_fsm_cycle brings the agent to IDLE.
C8_LoopReachesIdle ==
    (pc = "loop") ~> (rescue.current_state = STATE_IDLE)

\* C8 witness: the loop has ended after being entered mid-mission with
\* goals still queued
C8_Witness ==
    /\ pc = "done"
    /\ cycle_start.agent.current_state = STATE_ASSESSING
    /\ cycle_start.event # None
    /\ rescue.current_state = STATE_IDLE
    /\ Len(rescue.goals) = 2

\* C9: in the simulation, whenever the agent is in IDLE every goal created
\* so far is a completed mission and the queue is empty.
C9_RoundTrip ==
    rescue.current_state = STATE_IDLE
    => /\ rescue.completed_missions = created
       /\ rescue.goals = <<>>

\* C9 witness: the simulation has ended after 8 full cycles
C9_Witness ==
    /\ pc = "done"
    /\ created = num_cycles
    /\ rescue.completed_missions = num_cycles

\* C10: between the calls of a client of receive_alert and run_fsm_cycle the
\* state is never COMPLETING, and every COMPLETING entry of the history is
\* followed by the IDLE entry of the same complete_mission call.
C10_CompletingTransient ==
    LET h == rescue.state_history
    IN /\ rescue.current_state # STATE_COMPLETING
       /\ \A i \in DOMAIN h :
            h[i][1] = STATE_COMPLETING
            => /\ i < Len(h)
               /\ h[i + 1] = <<STATE_IDLE, <<"Ready for next assignment">> >>

\* C10 witness: a second mission has passed through COMPLETING
C10_Witness ==
    /\ rescue.completed_missions = 2
    /\ Len(rescue.state_history) = 11
    /\ rescue.state_history[10][1] = STATE_COMPLETING

\* where the RescueGoal object id is, and what its status field holds
InQueue(agent, id) == \E i \in DOMAIN agent.goals : agent.goals[i].id = id
IsActive(agent, id) == agent.active_goal # None /\ agent.active_goal.id = id
IsDropped(agent, id) == \E i \in DOMAIN agent.dropped : agent.dropped[i].id = id
Places(agent, id) ==
    Cardinality({i \in DOMAIN agent.goals : agent.goals[i].id = id})
      + (IF IsActive(agent, id) THEN 1 ELSE 0)
      + Cardinality({i \in DOMAIN agent.dropped : agent.dropped[i].id = id})
StatusOf(agent, id) ==
    IF InQueue(agent, id)
    THEN agent.goals[CHOOSE i \in DOMAIN agent.goals : agent.goals[i].id = id].status
    ELSE IF IsActive(agent, id)
    THEN agent.active_goal.status
    ELSE IF IsDropped(agent, id)
    THEN agent.dropped[CHOOSE i \in DOMAIN agent.dropped : agent.dropped[i].id = id].status
    ELSE "NONE"

\* C11: every goal constructed is in one place (queue, active goal, or let
\* go of) and is PENDING exactly while it is in the queue; its status only
\* moves PENDING -> ACTIVE (when a selection makes it the active goal) ->
\* COMPLETED (when complete_mission finishes it); a goal that left the queue
\* never enters it again, and a COMPLETED goal is never the active goal.
C11_GoalLifecycle ==
    /\ [](\A id \in 1..created :
            /\ Places(rescue, id) = 1
            /\ InQueue(rescue, id) <=> StatusOf(rescue, id) = "PENDING"
            /\ IsActive(rescue, id) => StatusOf(rescue, id) = "ACTIVE")
    /\ [][\A id \in 1..created :
            LET a == StatusOf(rescue, id)
                b == StatusOf(rescue', id)
                op == last_call'.op
            IN /\ <<a, b>> \in {<<"PENDING", "PENDING">>, <<"PENDING", "ACTIVE">>,
                                <<"ACTIVE", "ACTIVE">>, <<"ACTIVE", "COMPLETED">>,
                                <<"COMPLETED", "COMPLETED">>}
               /\ (a = "PENDING" /\ b = "ACTIVE")
                    => IsActive(rescue', id) /\ op \in {"assess_situation", "run_fsm_cycle"}
               /\ (a = "ACTIVE" /\ b = "COMPLETED")
                    => op \in {"complete_mission", "run_fsm_cycle"}
               /\ (/\ IsActive(rescue, id)
                   /\ \/ op = "complete_mission"
                      \/ op = "run_fsm_cycle" /\ rescue.current_state = STATE_RESPONDING)
                    => b = "COMPLETED"
               /\ ~InQueue(rescue, id) => ~InQueue(rescue', id)
               /\ a = "COMPLETED" => ~IsActive(rescue', id)]_vars

\* C11 witness: goal 1 was selected and completed, goal 2 is queued after it
C11_Witness ==
    /\ last_call.op = "receive_alert"
    /\ rescue.dropped = <<[id |-> 1, status |-> "COMPLETED"]>>
    /\ Len(rescue.goals) = 1
    /\ rescue.goals[1].id = 2
    /\ rescue.goals[1].status = "PENDING"
    /\ rescue.completed_missions = 1

\* C12: receive_alert(None) changes nothing, in whatever state it is called:
\* state, queue, active goal, history, counter and log stay as they were and
\* no goal is constructed.
C12_AbsentEventNoop ==
    [][(IsCall("receive_alert") /\ last_call'.arg = None)
        => rescue' = rescue /\ created' = created]_vars

\* C12 witness: receive_alert(None) called in RESPONDING with a goal queued
C12_Witness ==
    /\ last_call.op = "receive_alert"
    /\ last_call.arg = None
    /\ rescue.current_state = STATE_RESPONDING
    /\ rescue.active_goal # None
    /\ Len(rescue.goals) = 1

\* C13: execute_response and complete_mission called without an active goal
\* change nothing, in whatever state they are called.
C13_NoActiveGoalNoop ==
    [][((IsCall("execute_response") \/ IsCall("complete_mission"))
          /\ rescue.active_goal = None)
        => rescue' = rescue /\ created' = created]_vars

\* C13 witness: complete_mission called in RESPONDING without an active goal
C13_Witness ==
    /\ last_call.op = "complete_mission"
    /\ rescue.active_goal = None
    /\ rescue.current_state = STATE_RESPONDING
    /\ rescue.completed_missions = 0

\* The action list the table of lines 176-205 gives for a disaster kind and
\* a severity, written out position by position.
C14_Expected(d, v, got) ==
    LET high == v \in {"HIGH", "CRITICAL"}
        n == IF d \in {"FLOOD", "EARTHQUAKE", "FIRE", "LANDSLIDE"} THEN 3 ELSE 1
    IN /\ Len(got) = n + (IF high THEN 2 ELSE 0) + (IF v = "CRITICAL" THEN 1 ELSE 0)
       /\ Len(got) >= 1
       /\ n = 1 => got[1] = "Initiating general rescue protocol"
       /\ d = "FLOOD" => SubSeq(got, 1, 3) =
             <<"Deploying water rescue boats", "Activating flood barriers",
               "Evacuating residents to higher ground">>
       /\ d = "EARTHQUAKE" => SubSeq(got, 1, 3) =
             <<"Deploying seismic rescue units", "Scanning collapsed structures",
               "Setting up triage stations">>
       /\ d = "LANDSLIDE" => SubSeq(got, 1, 3) =
             <<"Deploying heavy debris removal equipment",
               "Scanning for buried survivors", "Securing unstable terrain">>
       /\ d = "FIRE" => SubSeq(got, 1, 3) =
             <<"Dispatching fire suppression units", "Establishing firebreaks",
               "Evacuating affected buildings">>
       /\ high => /\ got[n + 1] = "Requesting additional backup units"
                  /\ got[n + 2] = "Alerting medical emergency teams"
       /\ v = "CRITICAL" => got[n + 3] = "Declaring zone-wide emergency evacuation"
       /\ (d = "FIRE" /\ v = "CRITICAL") => got =
             <<"Dispatching fire suppression units", "Establishing firebreaks",
               "Evacuating affected buildings", "Requesting additional backup units",
               "Alerting medical emergency teams",
               "Declaring zone-wide emergency evacuation">>

\* C14: the action list is the base list of the disaster kind (3 actions for
\* Flood, Earthquake, Fire and Landslide, otherwise the one generic action),
\* then the two backup actions exactly when the severity is HIGH or CRITICAL,
\* then the evacuation action exactly when it is CRITICAL; it is never empty
\* and a CRITICAL Fire gives the 6 actions in this order. This holds of every
\* call of _get_response_actions, whatever was asked before, and the ACTION
\* lines of the step that executes the response are the list of the active
\* goal's event.
C14_ResponseActions ==
    /\ [](last_call.op = "_get_response_actions"
          => C14_Expected(last_call.arg.disaster, last_call.arg.severity,
                          last_call.ret.value))
    /\ [][(IsCall("run_fsm_cycle") /\ rescue.current_state = STATE_ASSESSING)
          => /\ rescue.active_goal # None
             /\ rescue'.current_state = STATE_RESPONDING
             /\ C14_Expected(rescue.active_goal.disaster_event.disaster_type,
                             rescue.active_goal.disaster_event.severity,
                             last_call'.out)]_vars

\* C14 witness: the response to a CRITICAL Fire executed after the same
\* list was asked for directly
C14_Witness ==
    /\ last_call.op = "run_fsm_cycle"
    /\ rescue.current_state = STATE_RESPONDING
    /\ rescue.active_goal.disaster_event.disaster_type = "FIRE"
    /\ rescue.active_goal.disaster_event.severity = "CRITICAL"
    /\ Len(last_call.out) = 6
    /\ calls = 4

\* C15: for every member of DisasterType and of SeverityLevel, receive_alert
\* appends one PENDING goal whose kind is the fixed mapping of the disaster
\* kind (GENERAL_RESCUE for NONE) and whose priority is the severity ordinal.
C15_GoalDerivation ==
    [][(IsCall("receive_alert") /\ last_call'.arg # None)
        => LET event == last_call'.arg
               d == event.disaster_type
               v == event.severity
               goal == rescue'.goals[Len(rescue'.goals)]
           IN /\ Len(rescue'.goals) = Len(rescue.goals) + 1
              /\ goal.status = "PENDING"
              /\ goal.target_zone = event.zone
              /\ goal.disaster_event = event
              /\ d = "FLOOD" => goal.goal_type = "EVACUATE_AND_RESCUE"
              /\ d = "EARTHQUAKE" => goal.goal_type = "SEARCH_AND_RESCUE"
              /\ d = "FIRE" => goal.goal_type = "FIRE_SUPPRESSION_AND_RESCUE"
              /\ d = "LANDSLIDE" => goal.goal_type = "DEBRIS_CLEARANCE_AND_RESCUE"
              /\ d = "NONE" => goal.goal_type = "GENERAL_RESCUE"
              /\ goal.priority \in 0..4
              /\ v = "NONE" => goal.priority = 0
              /\ v = "LOW" => goal.priority = 1
              /\ v = "MODERATE" => goal.priority = 2
              /\ v = "HIGH" => goal.priority = 3
              /\ v = "CRITICAL" => goal.priority = 4]_vars

\* C15 witness: the unmapped kind NONE, delivered after an Earthquake alert
C15_Witness ==
    /\ last_call.op = "receive_alert"
    /\ last_call.arg.disaster_type = "NONE"
    /\ last_call.arg.severity = "HIGH"
    /\ Len(rescue.goals) = 2
    /\ rescue.goals[1].goal_type = "SEARCH_AND_RESCUE"
    /\ rescue.goals[2].goal_type = "GENERAL_RESCUE"
    /\ rescue.goals[2].priority = 3

\* C16: between the calls of a client that only delivers alerts and runs the
\* dispatcher, the agent has an active goal exactly when it is in ASSESSING
\* or RESPONDING and none in IDLE and ALERT_RECEIVED; the active goal has
\* status ACTIVE and is not in the queue.
C16_ActiveGoalByState ==
    /\ rescue.current_state \in {STATE_IDLE, STATE_ALERT, STATE_ASSESSING, STATE_RESPONDING}
    /\ rescue.active_goal # None
         <=> rescue.current_state \in {STATE_ASSESSING, STATE_RESPONDING}
    /\ rescue.current_state \in {STATE_IDLE, STATE_ALERT} => rescue.active_goal = None
    /\ rescue.active_goal # None
         => /\ rescue.active_goal.status = "ACTIVE"
            /\ ~InQueue(rescue, rescue.active_goal.id)

\* C16 witness: a second mission is running, a later alert is queued
C16_Witness ==
    /\ rescue.current_state = STATE_RESPONDING
    /\ rescue.active_goal # None
    /\ rescue.completed_missions = 1
    /\ Len(rescue.goals) = 1

\* C19: the goals receive_alert constructed are the queued ones, the active
\* one if there is one, and the completed ones; none is lost or counted twice.
C19_GoalConservation ==
    created = Len(rescue.goals)
                + (IF rescue.active_goal # None THEN 1 ELSE 0)
                + rescue.completed_missions

\* C19 witness: of three goals one is completed, one active, one queued
C19_Witness ==
    /\ created = 3
    /\ rescue.completed_missions = 1
    /\ rescue.active_goal # None
    /\ Len(rescue.goals) = 1
    /\ rescue.current_state = STATE_ASSESSING

\* The edges of the cycle IDLE -> ALERT_RECEIVED -> ASSESSING -> RESPONDING
\* -> COMPLETING -> IDLE.
C20_CycleEdges ==
    {<<STATE_IDLE, STATE_ALERT>>, <<STATE_ALERT, STATE_ASSESSING>>,
     <<STATE_ASSESSING, STATE_RESPONDING>>, <<STATE_RESPONDING, STATE_COMPLETING>>,
     <<STATE_COMPLETING, STATE_IDLE>>}

\* C20: for a client that only delivers alerts and runs the dispatcher, the
\* queue is not empty in ALERT_RECEIVED; the queue shrinks only in a step
\* taken from ALERT_RECEIVED, by one goal, and that step ends in ASSESSING;
\* every committed transition is an edge of the cycle, none carries the
\* reason "No pending goals", and no invalid transition is attempted.
C20_OnlyTheCycle ==
    /\ [](/\ rescue.current_state = STATE_ALERT => rescue.goals # <<>>
          /\ rescue.execution_log = <<>>
          /\ \A i \in 2..Len(rescue.state_history) :
                /\ <<rescue.state_history[i - 1][1], rescue.state_history[i][1]>>
                      \in C20_CycleEdges
                /\ rescue.state_history[i][2] # <<"No pending goals">>)
    /\ [][/\ Len(rescue'.goals) < Len(rescue.goals)
              => /\ rescue.current_state = STATE_ALERT
                 /\ rescue'.current_state = STATE_ASSESSING
                 /\ Len(rescue'.goals) = Len(rescue.goals) - 1
          /\ (IsCall("run_fsm_cycle") /\ rescue.current_state = STATE_ALERT)
              => /\ rescue'.current_state = STATE_ASSESSING
                 /\ Len(rescue'.goals) = Len(rescue.goals) - 1]_vars

\* C20 witness: a goal queued during the first mission is selected by the
\* step taken from ALERT_RECEIVED after a later alert
C20_Witness ==
    /\ last_call.op = "run_fsm_cycle"
    /\ rescue.current_state = STATE_ASSESSING
    /\ rescue.completed_missions = 1
    /\ Len(rescue.goals) = 1
    /\ Len(rescue.state_history) = 8

\* C17: the transition count of the final summary is the number of
\* transitions the agent committed, 5 for each mission completed.
C17_TransitionCount ==
    pc = "done" => summary.transition_count = 5 * summary.missions_completed

\* C18: every goal receive_alert accepted is eventually COMPLETED when the
\* dispatcher keeps being invoked and finitely many alerts arrive.
C18_EveryGoalCompleted ==
    \A id \in 1..MaxFairAlerts :
        (created >= id)
          ~> (\E i \in DOMAIN rescue.dropped :
                 rescue.dropped[i] = [id |-> id, status |-> "COMPLETED"])

\* C21: whatever the client calls among receive_alert, assess_situation,
\* execute_response, complete_mission and run_fsm_cycle, completed_missions
\* is the number of RESPONDING -> COMPLETING transitions in the history.
C21_CountedWhenCommitted ==
    rescue.completed_missions =
        Cardinality({i \in 2..Len(rescue.state_history) :
                        /\ rescue.state_history[i - 1][1] = STATE_RESPONDING
                        /\ rescue.state_history[i][1] = STATE_COMPLETING})

====
